---- MODULE Spec2Model ----
(***************************************************************************)
(* Model of labml_app/analyses/computers/process.py: the per-session       *)
(* process aggregator (ProcessModel / ProcessAnalysis), its session        *)
(* registry (ProcessIndex, ProcessPreferencesIndex) and its three queries. *)
(*                                                                         *)
(* Strings that the code splits on '.' are sequences of tokens: a token is *)
(* the separator "." or a dot-free chunk ("process", "p1", "cpu", ...).    *)
(* Numbers are thousandths (5000 is 5.0), so that 1.0E-2 is the integer 10.*)
(* Python dicts whose iteration order the code depends on (tracking, the   *)
(* ingestion batch, res, zero_cpu_processes) are sequences of <<key,value>>*)
(* pairs in insertion order; dicts that are only looked up are functions.  *)
(***************************************************************************)
EXTENDS Integers, Sequences, FiniteSets, TLC

VARIABLES
    index,      \* ProcessIndex: session_uuid -> key of its ProcessModel, NoKey if none
    prefIndex,  \* ProcessPreferencesIndex: session_uuid -> key, NoKey if none
    db,         \* the saved ProcessModel records, by key
    prefDb,     \* the saved ProcessPreferencesModel records, by key
    created,    \* number of ProcessModel (and preferences) records created so far
    ans,        \* per request: the ProcessAnalysis that get_or_create returned
    ntracks,    \* number of ingestion batches handled so far
    result      \* what the last operation was and what it returned (for
                \* get_tracking also the cache it replaced)

vars == <<index, prefIndex, db, prefDb, created, ans, ntracks, result>>

----------------------------------------------------------------------------
\* Bounds of the model

MaxTracks == 2
MaxCreates == 2
NRank == 6

----------------------------------------------------------------------------
\* Program constants

ALMOST_ZERO == 10
max_buffer_length == 100
PROCESS == "process"
SERIES_NAMES == <<"rss", "vms", "cpu", "threads", "user", "system">>
TopN == 5

NoKey == 0
Dot == "."

----------------------------------------------------------------------------
\* Strings, split and join

Min(a, b) == IF a < b THEN a ELSE b

RECURSIVE SplitFrom(_, _, _)
SplitFrom(str, cur, out) ==
    IF str = <<>> THEN Append(out, cur)
    ELSE IF Head(str) = Dot THEN SplitFrom(Tail(str), "", Append(out, cur))
    ELSE SplitFrom(Tail(str), Head(str), out)

\* ind.split('.'): the segments between the dots; '' for an empty segment
split(str) == SplitFrom(str, "", <<>>)

Chunk(seg) == IF seg = "" THEN <<>> ELSE <<seg>>

RECURSIVE join(_)
\* '.'.join(segs)
join(segs) ==
    IF Len(segs) = 0 THEN <<>>
    ELSE IF Len(segs) = 1 THEN Chunk(segs[1])
    ELSE Chunk(segs[1]) \o <<Dot>> \o join(Tail(segs))

\* segs[a:b] of Python, 0-based and clipped to the list
Slice(segs, a, b) == SubSeq(segs, a + 1, Min(b, Len(segs)))

\* segs[:-1]
AllButLast(segs) == SubSeq(segs, 1, Len(segs) - 1)

\* segs[-1]
Last(segs) == segs[Len(segs)]

\* the chunks of the vocabulary that have 'gpu' as a substring
GpuChunks == {"gpu"}

\* 'gpu' in process_id
ContainsGpu(str) == \E i \in 1..Len(str) : str[i] \in GpuChunks

----------------------------------------------------------------------------
\* Dicts

EmptyMap == [x \in {} |-> 0]

Has(m, k) == k \in DOMAIN m

\* m.get(k, default)
Get(m, k, default) == IF k \in DOMAIN m THEN m[k] ELSE default

\* m[k] = v
Put(m, k, v) == [x \in DOMAIN m \cup {k} |-> IF x = k THEN v ELSE m[x]]

\* del m[k]
Remove(m, k) == [x \in DOMAIN m \ {k} |-> m[x]]

\* insertion-ordered dicts
ODHas(d, k) == \E i \in DOMAIN d : d[i][1] = k

ODGet(d, k) == d[CHOOSE i \in DOMAIN d : d[i][1] = k][2]

\* d[k] = v: an existing key keeps its place, a new key goes last
ODSet(d, k, v) ==
    IF ODHas(d, k)
    THEN [i \in DOMAIN d |-> IF d[i][1] = k THEN <<k, v>> ELSE d[i]]
    ELSE Append(d, <<k, v>>)

\* Python truthiness of a number
Truthy(v) == v # 0

----------------------------------------------------------------------------
\* Series and SeriesCollection (..series, ..series_collection)

RECURSIVE Sum(_)
Sum(vals) == IF vals = <<>> THEN 0 ELSE Head(vals) + Sum(Tail(vals))

\* Series().load(track).summary['mean'] < limit, without dividing
MeanBelow(vals, limit) == Sum(vals) < limit * Len(vals)

\* the smoothed sequence of a series: a moving average over two samples
smoothed(vals) ==
    [i \in 1..Len(vals) |-> IF i = 1 THEN vals[1] ELSE (vals[i - 1] + vals[i]) \div 2]

\* Series().load(track).detail
detail(vals) == [value |-> vals, smoothed |-> smoothed(vals)]

\* a series keeps at most max_buffer_length samples
Capped(vals) ==
    IF Len(vals) > max_buffer_length
    THEN SubSeq(vals, Len(vals) - max_buffer_length + 1, Len(vals))
    ELSE vals

RECURSIVE SeriesCollectionTrack(_, _)
\* SeriesCollection.track(data): append each sample to its series, creating
\* the series on the first append
SeriesCollectionTrack(tracking, data) ==
    IF data = <<>> THEN tracking
    ELSE LET ind == Head(data)[1]
             s == Head(data)[2]
             old == IF ODHas(tracking, ind) THEN ODGet(tracking, ind) ELSE <<>>
         IN SeriesCollectionTrack(ODSet(tracking, ind, Capped(old \o s.value)), Tail(data))

----------------------------------------------------------------------------
\* ProcessModel

defaults ==
    [names |-> EmptyMap, exes |-> EmptyMap, cmdlines |-> EmptyMap,
     create_times |-> EmptyMap, pids |-> EmptyMap, ppids |-> EmptyMap,
     dead |-> EmptyMap, gpu_processes |-> EmptyMap, zero_cpu_processes |-> <<>>,
     tracking |-> <<>>]

\* the seven attribute maps of ProcessModel
AttrMaps == {"names", "exes", "cmdlines", "create_times", "pids", "ppids", "dead"}

----------------------------------------------------------------------------
\* ProcessAnalysis.track

AnyType(ind_type) == TRUE

\* ind_type == COMPUTEREnums.PROCESS
IsProcessType(ind_type) == ind_type = PROCESS

SetAlways(m, k, v) == Put(m, k, v)

\* if process_id not in self.process.<map>: self.process.<map>[process_id] = value
SetIfAbsent(m, k, v) == IF k \in DOMAIN m THEN m ELSE Put(m, k, v)

NoGpu(p, ind_split, process_id) == p

\* the 'gpu' branch: register segments 3-4 under the process of segments 1-2
AddGpu(p, ind_split, process_id) ==
    IF ContainsGpu(process_id)
    THEN LET pid == join(Slice(ind_split, 0, 2))
             gpu_process == join(Slice(ind_split, 2, 4))
         IN [p EXCEPT !.gpu_processes = Put(@, pid, Get(@, pid, {}) \cup {gpu_process})]
    ELSE p

\* one turn of the loop over data.items(); st is [process, res]
TrackItem(st, item) ==
    LET ind == item[1]
        s == item[2]
        ind_split == split(ind)
        ind_type == ind_split[1]
        suffix == Last(ind_split)
        process_id == join(AllButLast(ind_split))
        p == st.process
    IN IF ~IsProcessType(ind_type) THEN st
       ELSE IF suffix = "name"
       THEN [st EXCEPT !.process.names = SetIfAbsent(@, process_id, s.value[1])]
       ELSE IF suffix = "exe"
       THEN [st EXCEPT !.process.exes = SetIfAbsent(@, process_id, s.value[1])]
       ELSE IF suffix = "cmdline"
       THEN [st EXCEPT !.process.cmdlines = SetIfAbsent(@, process_id, s.value[1])]
       ELSE IF suffix = "create_time"
       THEN [st EXCEPT !.process.create_times = SetIfAbsent(@, process_id, s.value[1])]
       ELSE IF suffix = "pid"
       THEN [st EXCEPT !.process.pids = SetIfAbsent(@, process_id, s.value[1])]
       ELSE IF suffix = "ppids"
       THEN [st EXCEPT !.process.ppids = SetIfAbsent(@, process_id, s.value[1])]
       ELSE IF suffix = "dead"
       THEN [st EXCEPT !.process.dead = SetIfAbsent(@, process_id, s.value[1])]
       ELSE [process |-> AddGpu(p, ind_split, process_id),
             res |-> ODSet(st.res, ind, s)]

RECURSIVE TrackLoop(_, _)
TrackLoop(st, data) ==
    IF data = <<>> THEN st ELSE TrackLoop(TrackItem(st, Head(data)), Tail(data))

trackForwardAll(process, data) ==
    LET st == TrackLoop([process |-> process, res |-> <<>>], data)
    IN [st.process EXCEPT !.tracking = SeriesCollectionTrack(@, data)]

\* track(data): the ProcessModel after the loop and self.process.track(res)
track(process, data) ==
    LET st == TrackLoop([process |-> process, res |-> <<>>], data)
    IN [st.process EXCEPT !.tracking = SeriesCollectionTrack(@, st.res)]

----------------------------------------------------------------------------
\* ProcessAnalysis.get_tracking

\* v[f] = x on a dict used as a record
SetField(v, f, x) == [k \in DOMAIN v \cup {f} |-> IF k = f THEN x ELSE v[k]]

NeverDead(process, process_id) == FALSE

\* dead = self.process.dead.get(process_id, 0); if dead: continue
IsDead(process, process_id) == Truthy(Get(process.dead, process_id, 0))

\* the record res[process_id] starts as
NewRecord(process, process_id) ==
    [process_id |-> process_id,
     dead |-> Get(process.dead, process_id, 0),
     pid |-> Get(process.pids, process_id, 0),
     name |-> Get(process.names, process_id, ""),
     is_zero_cpu |-> FALSE]

NeverZeroCpu(suffix, vals) == FALSE

\* suffix == 'cpu' and s.summary['mean'] < ALMOST_ZERO
IsZeroCpu(suffix, vals) == suffix = "cpu" /\ MeanBelow(vals, ALMOST_ZERO)

NoAlias(zero, process_id, v) == zero

\* zero_cpu_processes[process_id] is the object res[process_id]: what is
\* written to the record later shows in the cache too
Alias(zero, process_id, v) ==
    IF ODHas(zero, process_id) THEN ODSet(zero, process_id, v) ELSE zero

\* one turn of the loop over self.process.tracking.items(); st is [res, zero]
GetTrackingItem(process, st, item) ==
    LET ind == item[1]
        vals == item[2]
        ind_split == split(ind)
        process_id == join(AllButLast(ind_split))
        suffix == Last(ind_split)
    IN IF IsDead(process, process_id) THEN st
       ELSE LET res1 == IF ODHas(st.res, process_id) THEN st.res
                        ELSE ODSet(st.res, process_id, NewRecord(process, process_id))
                v0 == ODGet(res1, process_id)
            IN IF suffix \in {"cpu", "rss"}
               THEN LET hit == IsZeroCpu(suffix, vals)
                        zero1 == IF hit THEN ODSet(st.zero, process_id, v0) ELSE st.zero
                        v1 == IF hit THEN SetField(v0, "is_zero_cpu", TRUE) ELSE v0
                        v2 == SetField(v1, suffix, detail(vals))
                    IN [res |-> ODSet(res1, process_id, v2),
                        zero |-> Alias(zero1, process_id, v2)]
               ELSE [res |-> res1, zero |-> st.zero]

RECURSIVE GetTrackingLoop(_, _, _)
GetTrackingLoop(process, st, items) ==
    IF items = <<>> THEN st
    ELSE GetTrackingLoop(process, GetTrackingItem(process, st, Head(items)), Tail(items))

LiveKeepsWithoutRss(v) == ~(v.is_zero_cpu \/ "cpu" \notin DOMAIN v)

\* not (v['is_zero_cpu'] or 'cpu' not in v or 'rss' not in v)
LiveKeeps(v) == ~(v.is_zero_cpu \/ "cpu" \notin DOMAIN v \/ "rss" \notin DOMAIN v)

RECURSIVE LiveFilter(_)
\* the loop that builds ret from res.items()
LiveFilter(d) ==
    IF d = <<>> THEN <<>>
    ELSE IF LiveKeeps(Head(d)[2]) THEN <<Head(d)[2]>> \o LiveFilter(Tail(d))
    ELSE LiveFilter(Tail(d))

FirstSmoothed(v) == v.cpu.smoothed[1]

\* key=lambda s: s['cpu']['smoothed'][-1]
SortKey(v) == Last(v.cpu.smoothed)

RECURSIVE InsertDesc(_, _)
\* v goes after every element whose key is not smaller (the sort is stable)
InsertDesc(sorted, v) ==
    IF sorted = <<>> THEN <<v>>
    ELSE IF SortKey(Head(sorted)) >= SortKey(v)
    THEN <<Head(sorted)>> \o InsertDesc(Tail(sorted), v)
    ELSE <<v>> \o sorted

RECURSIVE SortDesc(_, _)
\* ret.sort(key=..., reverse=True)
SortDesc(sorted, rest) ==
    IF rest = <<>> THEN sorted ELSE SortDesc(InsertDesc(sorted, Head(rest)), Tail(rest))

TopAll(ret) == ret

\* ret[:5]
Top(ret) == SubSeq(ret, 1, Min(TopN, Len(ret)))

\* v['cpu']['name'] = v['name'], done on the records of ret[:5]
Tagged(v) == [v EXCEPT !.cpu = SetField(@, "name", v.name)]

ClearsSeries(process, zero) ==
    [process EXCEPT !.zero_cpu_processes = zero, !.tracking = <<>>]

\* self.process.zero_cpu_processes = zero_cpu_processes: no other field is assigned
WithCache(process, zero) == [process EXCEPT !.zero_cpu_processes = zero]

KeptCache(process) == process.zero_cpu_processes

\* zero_cpu_processes = {}: the cache is built from nothing on each call
FreshCache(process) == <<>>

\* get_tracking(): [ret, summary, process], process being what is saved
get_tracking(process) ==
    LET st == GetTrackingLoop(process, [res |-> <<>>, zero |-> FreshCache(process)],
                              process.tracking)
        sorted == SortDesc(<<>>, LiveFilter(st.res))
        top == Top(sorted)
        ret == [i \in 1..Len(sorted) |-> IF i <= Len(top) THEN Tagged(sorted[i]) ELSE sorted[i]]
        summary == [i \in 1..Len(top) |-> ret[i].cpu]
    IN [ret |-> ret, summary |-> summary,
        process |-> WithCache(process, st.zero)]

----------------------------------------------------------------------------
\* ProcessAnalysis.get_zero_cpu_processes

\* not ('cpu' not in v or 'rss' not in v)
ZeroKeeps(v) == ~("cpu" \notin DOMAIN v \/ "rss" \notin DOMAIN v)

RECURSIVE ZeroFilter(_)
ZeroFilter(d) ==
    IF d = <<>> THEN <<>>
    ELSE IF ZeroKeeps(Head(d)[2]) THEN <<Head(d)[2]>> \o ZeroFilter(Tail(d))
    ELSE ZeroFilter(Tail(d))

LiveZero(process) ==
    SortDesc(<<>>, ZeroFilter(get_tracking(process).process.zero_cpu_processes))

\* get_zero_cpu_processes(): the cached records that have cpu and rss, sorted
get_zero_cpu_processes(process) == SortDesc(<<>>, ZeroFilter(process.zero_cpu_processes))

----------------------------------------------------------------------------
\* ProcessAnalysis.get_process

SeriesListFilled(process, process_id, s_names) ==
    [i \in 1..Len(s_names) |->
       LET ind == process_id \o <<Dot>> \o s_names[i]
       IN SetField(detail(IF ODHas(process.tracking, ind)
                          THEN ODGet(process.tracking, ind) ELSE <<>>),
                   "name", s_names[i])]

RECURSIVE SeriesList(_, _, _)
\* the two loops that fill series_list: s_names are the metric names in turn
SeriesList(process, process_id, s_names) ==
    IF s_names = <<>> THEN <<>>
    ELSE LET s_name == Head(s_names)
             ind == process_id \o <<Dot>> \o s_name
             rest == SeriesList(process, process_id, Tail(s_names))
         IN IF ODHas(process.tracking, ind)
            THEN <<SetField(detail(ODGet(process.tracking, ind)), "name", s_name)>> \o rest
            ELSE rest

NameOrDefault(names, process_id) ==
    [raised |-> FALSE, value |-> Get(names, process_id, "")]

\* self.process.names[process_id]: raises KeyError when the id has no name
Subscript(names, process_id) ==
    IF Has(names, process_id)
    THEN [raised |-> FALSE, value |-> names[process_id]]
    ELSE [raised |-> TRUE, value |-> ""]

\* get_process(process_id); gpu_order is the order in which the set
\* gpu_processes[process_id] is iterated. [exc, value]: the exception that
\* leaves the method, or the record it returns
get_process(process, process_id, gpu_order) ==
    LET name == Subscript(process.names, process_id)
    IN IF name.raised THEN [exc |-> "KeyError"]
       ELSE [exc |-> "none",
             value |->
               [process_id |-> process_id,
                name |-> name.value,
                create_time |-> Get(process.create_times, process_id, 0),
                cmdline |-> Get(process.cmdlines, process_id, ""),
                exe |-> Get(process.exes, process_id, ""),
                pid |-> Get(process.pids, process_id, 0),
                ppid |-> Get(process.ppids, process_id, 0),
                dead |-> Get(process.dead, process_id, 0),
                series |->
                  SeriesList(process, process_id,
                             [i \in 1..Len(SERIES_NAMES) |-> <<SERIES_NAMES[i]>>])
                  \o SeriesList(process, process_id,
                                [i \in 1..Len(gpu_order) |-> gpu_order[i] \o <<Dot, "mem">>])]]

\* the orders in which a set can be iterated
Orders(S) == {f \in [1..Cardinality(S) -> S] : {f[i] : i \in 1..Cardinality(S)} = S}

----------------------------------------------------------------------------
\* Requests and the session registry

Sessions == {"s1"}
Reqs == {1}

\* no ProcessAnalysis in hand
Unbound == [key |-> NoKey, session |-> "", process |-> defaults]

Idle == \A r \in Reqs : ans[r].key = NoKey

NeverHasKey(idx, session_uuid) == FALSE

\* process_key = ProcessIndex.get(session_uuid); "if not process_key" fails
HasKey(idx, session_uuid) == idx[session_uuid] # NoKey

Init ==
    /\ index = [s \in Sessions |-> NoKey]
    /\ prefIndex = [s \in Sessions |-> NoKey]
    /\ db = EmptyMap
    /\ prefDb = EmptyMap
    /\ created = 0
    /\ ans = [r \in Reqs |-> Unbound]
    /\ ntracks = 0
    /\ result = [op |-> "none"]

\* ProcessAnalysis.get_or_create(session_uuid), called by request r
GetOrCreate(r, s) ==
    /\ IF HasKey(index, s)
       THEN /\ ans' = [ans EXCEPT ![r] =
                         [key |-> index[s], session |-> s, process |-> db[index[s]]]]
            /\ UNCHANGED <<index, prefIndex, db, prefDb, created>>
       ELSE /\ created < MaxCreates
            /\ created' = created + 1
            /\ db' = Put(db, created', defaults)
            /\ index' = [index EXCEPT ![s] = created']
            /\ prefDb' = Put(prefDb, created', [preferences |-> EmptyMap])
            /\ prefIndex' = [prefIndex EXCEPT ![s] = created']
            /\ ans' = [ans EXCEPT ![r] =
                         [key |-> created', session |-> s, process |-> defaults]]
    /\ UNCHANGED <<ntracks, result>>

StaysRegistered(idx, stored, session_uuid) == [idx |-> idx, stored |-> stored]

\* if process_key: load the record, ProcessIndex.delete(session_uuid), p.delete()
DeleteProcess(idx, stored, session_uuid) ==
    IF idx[session_uuid] # NoKey
    THEN [idx |-> [idx EXCEPT ![session_uuid] = NoKey],
          stored |-> Remove(stored, idx[session_uuid])]
    ELSE [idx |-> idx, stored |-> stored]

\* if preferences_key: load the record, ProcessPreferencesIndex.delete, pp.delete()
DeletePreferences(idx, stored, session_uuid) ==
    IF idx[session_uuid] # NoKey
    THEN [idx |-> [idx EXCEPT ![session_uuid] = NoKey],
          stored |-> Remove(stored, idx[session_uuid])]
    ELSE [idx |-> idx, stored |-> stored]

\* ProcessAnalysis.delete(session_uuid)
Delete(s) ==
    /\ index' = DeleteProcess(index, db, s).idx
    /\ db' = DeleteProcess(index, db, s).stored
    /\ prefIndex' = DeletePreferences(prefIndex, prefDb, s).idx
    /\ prefDb' = DeletePreferences(prefIndex, prefDb, s).stored
    /\ result' = [op |-> "delete", session |-> s]
    /\ UNCHANGED <<created, ans, ntracks>>

SavedCacheOnly(stored, key, process) ==
    IF key \in DOMAIN stored
    THEN Put(stored, key,
             [stored[key] EXCEPT !.zero_cpu_processes = process.zero_cpu_processes])
    ELSE Put(stored, key, process)

\* self.process.save(): the whole record in hand replaces the stored one
Saved(stored, key, process) == Put(stored, key, process)

\* request r calls track(data) on its ProcessAnalysis; SeriesCollection.track saves
Track(r, data) ==
    /\ ans[r].key # NoKey
    /\ ntracks < MaxTracks
    /\ ntracks' = ntracks + 1
    /\ db' = Saved(db, ans[r].key, track(ans[r].process, data))
    /\ ans' = [ans EXCEPT ![r] = Unbound]
    /\ result' = [op |-> "track", key |-> ans[r].key, data |-> data]
    /\ UNCHANGED <<index, prefIndex, prefDb, created>>

\* request r calls get_tracking(), which saves the rebuilt cache
GetTracking(r) ==
    /\ ans[r].key # NoKey
    /\ LET out == get_tracking(ans[r].process)
       IN /\ db' = Saved(db, ans[r].key, out.process)
          /\ result' = [op |-> "get_tracking", key |-> ans[r].key,
                        ret |-> out.ret, summary |-> out.summary,
                        replaced |-> ans[r].process.zero_cpu_processes]
    /\ ans' = [ans EXCEPT ![r] = Unbound]
    /\ UNCHANGED <<index, prefIndex, prefDb, created, ntracks>>

\* request r calls get_zero_cpu_processes()
GetZeroCpuProcesses(r) ==
    /\ ans[r].key # NoKey
    /\ result' = [op |-> "get_zero_cpu_processes", key |-> ans[r].key,
                  ret |-> get_zero_cpu_processes(ans[r].process)]
    /\ ans' = [ans EXCEPT ![r] = Unbound]
    /\ UNCHANGED <<index, prefIndex, db, prefDb, created, ntracks>>

\* request r calls get_process(process_id)
GetProcess(r, process_id) ==
    /\ ans[r].key # NoKey
    /\ \E gpu_order \in Orders(Get(ans[r].process.gpu_processes, process_id, {})) :
         LET out == get_process(ans[r].process, process_id, gpu_order)
         IN result' = IF out.exc = "none"
                      THEN [op |-> "get_process", key |-> ans[r].key,
                            process_id |-> process_id, exc |-> "none",
                            value |-> out.value]
                      ELSE [op |-> "get_process", key |-> ans[r].key,
                            process_id |-> process_id, exc |-> out.exc]
    /\ ans' = [ans EXCEPT ![r] = Unbound]
    /\ UNCHANGED <<index, prefIndex, db, prefDb, created, ntracks>>

----------------------------------------------------------------------------
\* Inputs

P1 == <<"process", ".", "p1">>
P2 == <<"process", ".", "p2">>

\* one entry of an ingestion batch: the key of these segments, one sample v
Item(segs, v) == <<join(segs), [value |-> <<v>>]>>

\* batches whose samples are strings
StrBatches ==
    {<<Item(<<"process", p, "name">>, v)>> : p \in {"p1", "p2"}, v \in {"a", "b"}}
    \cup {<<Item(<<"process", "p1", sfx>>, v)>> : sfx \in {"exe", "cmdline"}, v \in {"a", "b"}}
    \cup {<<Item(<<"gpu", "p1", "name">>, "a")>>}

\* batches whose samples are numbers
NumBatches ==
    {<<Item(<<"process", p, "dead">>, v)>> : p \in {"p1", "p2"}, v \in {0, 1}}
    \cup {<<Item(<<"process", "p1", sfx>>, v)>> :
            sfx \in {"pid", "create_time", "ppids"}, v \in {1, 2}}
    \cup {<<Item(<<"process", p, "cpu">>, v)>> : p \in {"p1", "p2"}, v \in {0, 2000, 5000}}
    \cup {<<Item(<<"process", p, "rss">>, 7000)>> : p \in {"p1", "p2"}}
    \cup {<<Item(<<"process", p, "cpu">>, v), Item(<<"process", p, "rss">>, 7000)>> :
            p \in {"p1", "p2"}, v \in {0, 2000, 5000}}
    \cup {<<Item(<<"process", "p1", "gpu", "0", "mem">>, 1000)>>}
    \cup {<<Item(<<"process">>, 1000)>>}
    \cup {<<Item(<<"cpu", "p1", "dead">>, 1)>>}

\* the process ids asked of get_process
DetailIds == {P1, P2}

Next ==
    \/ \E s \in Sessions : GetOrCreate(1, s)
    \/ \E data \in StrBatches : Track(1, data)
    \/ \E data \in NumBatches : Track(1, data)
    \/ GetTracking(1)
    \/ GetZeroCpuProcesses(1)
    \/ \E process_id \in DetailIds : GetProcess(1, process_id)
    \/ Idle /\ \E s \in Sessions : Delete(s)

Spec == Init /\ [][Next]_vars

----------------------------------------------------------------------------
\* A session that has ingested one batch with the cpu and rss series of NRank
\* processes, queried for its tables

\* the chunk naming process i
ProcChunks == <<"q1", "q2", "q3", "q4", "q5", "q6", "q7", "q8">>

\* the cpu samples process i may have sent: an idle series (mean 0 for odd i,
\* mean 0.005 for even i) or one of two busy ones (means 2.0 and 3.0)
RankCpu(i) == {IF i % 2 = 1 THEN <<0>> ELSE <<8, 2>>, <<2000>>, <<1000, 5000>>}

\* the batch: two names, the dead flag of the processes in deadset, then cpu and
\* rss of every process
RankBatch(cpus, deadset) ==
    <<Item(<<"process", ProcChunks[1], "name">>, "a"),
      Item(<<"process", ProcChunks[2], "name">>, "b")>>
    \o [i \in 1..Cardinality(deadset) |-> Item(<<"process", ProcChunks[1], "dead">>, 1)]
    \o [j \in 1..(2 * NRank) |->
          IF j % 2 = 1
          THEN <<join(<<"process", ProcChunks[(j + 1) \div 2], "cpu">>),
                 [value |-> cpus[(j + 1) \div 2]]>>
          ELSE Item(<<"process", ProcChunks[j \div 2], "rss">>, 7000)]

InitRank ==
    /\ index = [s \in Sessions |-> 1]
    /\ prefIndex = [s \in Sessions |-> 1]
    /\ \E cpus \in {f \in [1..NRank -> UNION {RankCpu(i) : i \in 1..NRank}] :
                         \A i \in 1..NRank : f[i] \in RankCpu(i)},
          deadset \in SUBSET {1} :
         db = Put(EmptyMap, 1, track(defaults, RankBatch(cpus, deadset)))
    /\ prefDb = Put(EmptyMap, 1, [preferences |-> EmptyMap])
    /\ created = 1
    /\ ans = [r \in Reqs |-> Unbound]
    /\ ntracks = 1
    /\ result = [op |-> "none"]

NextRank ==
    \/ \E s \in Sessions : GetOrCreate(1, s)
    \/ GetTracking(1)
    \/ GetZeroCpuProcesses(1)

SpecRank == InitRank /\ [][NextRank]_vars

----------------------------------------------------------------------------
\* Notions the properties share

\* the process ids of a list of records
Ids(ret) == {ret[i].process_id : i \in DOMAIN ret}

\* the key of metric sfx of process process_id
MetricKey(process_id, sfx) == process_id \o <<Dot, sfx>>

\* the process ids that have a series named sfx in the store
WithSeries(process, sfx) ==
    {join(AllButLast(split(process.tracking[i][1]))) :
       i \in {j \in DOMAIN process.tracking : Last(split(process.tracking[j][1])) = sfx}}

\* the process ids whose stored cpu series has a mean below 1.0E-2
IdleIds(process) ==
    {join(AllButLast(split(process.tracking[i][1]))) :
       i \in {j \in DOMAIN process.tracking :
                /\ Last(split(process.tracking[j][1])) = "cpu"
                /\ Sum(process.tracking[j][2]) < 10 * Len(process.tracking[j][2])}}

\* the process ids marked dead
DeadIds(process) == {p \in DOMAIN process.dead : process.dead[p] # 0}

\* the step is request 1 returning from a method that answered op
Returned(op) == ans[1].key # NoKey /\ ans'[1].key = NoKey /\ result'.op = op

----------------------------------------------------------------------------
\* C1: first-write-wins. In every step that does not delete the record, each
\* of the seven attribute maps keeps every process id it holds, with the value
\* it holds: no later sample, query or dead/alive flip changes a stored value.
C1_FirstWriteWins ==
    [][\A k \in DOMAIN db \cap DOMAIN db' : \A m \in AttrMaps : \A p \in DOMAIN db[k][m] :
          p \in DOMAIN db'[k][m] /\ db'[k][m][p] = db[k][m][p]]_vars

\* an ingestion has just offered, for a process that has a name, another name
C1_Witness ==
    /\ result.op = "track"
    /\ \E i \in DOMAIN result.data :
         LET ind_split == split(result.data[i][1])
             process_id == join(AllButLast(ind_split))
         IN /\ ind_split[1] = PROCESS
            /\ Last(ind_split) = "name"
            /\ Has(db[result.key].names, process_id)
            /\ db[result.key].names[process_id] # result.data[i][2].value[1]

\* C2: dead exclusion. After get_tracking, no record of the ranked list is of a
\* process marked dead, and every entry of the summary is the cpu detail of a
\* ranked record of a process not marked dead.
C2_DeadExclusion ==
    result.op = "get_tracking" =>
        /\ Ids(result.ret) \cap DeadIds(db[result.key]) = {}
        /\ \A i \in DOMAIN result.summary :
             \E j \in DOMAIN result.ret :
                /\ result.summary[i] = result.ret[j].cpu
                /\ result.ret[j].process_id \notin DeadIds(db[result.key])

\* get_tracking has answered for a session holding a dead process that has a
\* busy cpu series and an rss series
C2_Witness ==
    /\ result.op = "get_tracking"
    /\ \E p \in DeadIds(db[result.key]) :
         /\ p \in WithSeries(db[result.key], "cpu") \ IdleIds(db[result.key])
         /\ p \in WithSeries(db[result.key], "rss")

\* C3 as claimed: a process whose cpu mean is below 1.0E-2 is not in the ranked
\* list of get_tracking, and is in the result of the get_zero_cpu_processes call
\* that follows it.
C3_Original ==
    [][/\ Returned("get_tracking") =>
            Ids(result'.ret) \cap IdleIds(db'[result'.key]) = {}
       /\ (result.op = "get_tracking" /\ Returned("get_zero_cpu_processes")
              /\ result'.key = result.key) =>
            IdleIds(db[result.key]) \subseteq Ids(result'.ret)]_vars

\* C3, amended: a process whose cpu mean is below 1.0E-2 is not in the ranked
\* list of get_tracking; if it is not marked dead and has an rss series, it is in
\* the result of the get_zero_cpu_processes call that follows that get_tracking
\* with no ingestion in between.
C3_ZeroCpuPartition ==
    [][/\ Returned("get_tracking") =>
            Ids(result'.ret) \cap IdleIds(db'[result'.key]) = {}
       /\ (result.op = "get_tracking" /\ Returned("get_zero_cpu_processes")
              /\ result'.key = result.key) =>
            (IdleIds(db[result.key]) \cap WithSeries(db[result.key], "rss"))
               \ DeadIds(db[result.key]) \subseteq Ids(result'.ret)]_vars

\* get_zero_cpu_processes has returned an idle process
C3_Witness ==
    /\ result.op = "get_zero_cpu_processes"
    /\ Ids(result.ret) \cap IdleIds(db[result.key]) # {}

\* C4: completeness filter. Every record of the ranked list of get_tracking and
\* of the result of get_zero_cpu_processes has a cpu and an rss detail, and is of
\* a process that has both a cpu and an rss series stored.
C4_CompletenessFilter ==
    result.op \in {"get_tracking", "get_zero_cpu_processes"} =>
        \A i \in DOMAIN result.ret :
            /\ {"cpu", "rss"} \subseteq DOMAIN result.ret[i]
            /\ result.ret[i].process_id \in
                 WithSeries(db[result.key], "cpu") \cap WithSeries(db[result.key], "rss")

\* get_tracking has answered for a session holding a live process with an rss
\* series and no cpu series
C4_Witness ==
    /\ result.op = "get_tracking"
    /\ (WithSeries(db[result.key], "rss") \ WithSeries(db[result.key], "cpu"))
          \ DeadIds(db[result.key]) # {}

\* the last value of the smoothed cpu sequence of a record
LastSmoothedCpu(v) == v.cpu.smoothed[Len(v.cpu.smoothed)]

\* C5: ranking order. The list returned by get_tracking, and the list returned
\* by get_zero_cpu_processes, is in non-increasing order of the last value of
\* each record's smoothed cpu sequence.
C5_RankingOrder ==
    result.op \in {"get_tracking", "get_zero_cpu_processes"} =>
        \A i, j \in DOMAIN result.ret :
            i < j => LastSmoothedCpu(result.ret[i]) >= LastSmoothedCpu(result.ret[j])

\* get_tracking has ranked, first, a process whose series was stored after that
\* of the process it ranked second, and whose last smoothed cpu is greater
C5_Witness ==
    /\ result.op = "get_tracking"
    /\ Len(result.ret) >= 2
    /\ LastSmoothedCpu(result.ret[1]) > LastSmoothedCpu(result.ret[2])
    /\ \E i, j \in DOMAIN db[result.key].tracking :
         /\ i < j
         /\ db[result.key].tracking[i][1] = MetricKey(result.ret[2].process_id, "cpu")
         /\ db[result.key].tracking[j][1] = MetricKey(result.ret[1].process_id, "cpu")

\* C6: top-5 bound. The summary of get_tracking has min(5, n) entries, n the
\* length of the ranked list, and its i-th entry is the cpu detail of the i-th
\* ranked record, tagged with that record's name.
C6_TopFive ==
    result.op = "get_tracking" =>
        /\ Len(result.summary) = IF Len(result.ret) < 5 THEN Len(result.ret) ELSE 5
        /\ \A i \in DOMAIN result.summary :
             /\ result.summary[i] = result.ret[i].cpu
             /\ result.summary[i].name = result.ret[i].name
             /\ result.summary[i].smoothed =
                  smoothed(ODGet(db[result.key].tracking,
                                 MetricKey(result.ret[i].process_id, "cpu")))

\* get_tracking has ranked more than five processes
C6_Witness ==
    /\ result.op = "get_tracking"
    /\ Len(result.ret) > 5
    /\ Len(result.summary) = 5

\* C7: detail not-found. get_process for a process id without a recorded name
\* ends with KeyError and returns no record, whatever else is stored for the id,
\* and changes nothing of the registry and the stored records.
C7_DetailNotFound ==
    [][(Returned("get_process")
          /\ ~Has(db[result'.key].names, result'.process_id)) =>
            /\ result'.exc = "KeyError"
            /\ "value" \notin DOMAIN result'
            /\ UNCHANGED <<index, prefIndex, db, prefDb, created>>]_vars

\* get_process has failed for a process id that has a cpu series stored
C7_Witness ==
    /\ result.op = "get_process"
    /\ result.exc = "KeyError"
    /\ ODHas(db[result.key].tracking, MetricKey(result.process_id, "cpu"))

\* the entries of a batch whose key has at least two segments
RECURSIVE WellFormed(_)
WellFormed(data) ==
    IF data = <<>> THEN <<>>
    ELSE IF Len(split(Head(data)[1])) >= 2 THEN <<Head(data)>> \o WellFormed(Tail(data))
    ELSE WellFormed(Tail(data))

\* C8 as claimed: malformed keys are ignored. An ingestion leaves the record as
\* the same batch without its keys of fewer than two segments would leave it.
C8_MalformedIgnored ==
    [][(result'.op = "track" /\ ntracks' = ntracks + 1) =>
          db'[result'.key] = track(db[result'.key], WellFormed(result'.data))]_vars

\* the entries of a batch whose key is of the process analysis type
RECURSIVE OwnKeys(_)
OwnKeys(data) ==
    IF data = <<>> THEN <<>>
    ELSE IF split(Head(data)[1])[1] = "process" THEN <<Head(data)>> \o OwnKeys(Tail(data))
    ELSE OwnKeys(Tail(data))

\* the first segment of every key the record holds
Prefixes(process) ==
    {split(p)[1] : p \in UNION {DOMAIN process[m] : m \in AttrMaps \cup {"gpu_processes"}}}
    \cup {split(process.tracking[i][1])[1] : i \in DOMAIN process.tracking}

\* C9: foreign keys are ignored. An ingestion leaves the record as the same
\* batch without its foreign keys would leave it: unchanged when every key is
\* foreign; and no attribute map, GPU set or series is ever stored under a key
\* whose first segment is not the process analysis type.
C9_ForeignIgnored ==
    [][(result'.op = "track" /\ ntracks' = ntracks + 1) =>
          /\ db'[result'.key] = track(db[result'.key], OwnKeys(result'.data))
          /\ OwnKeys(result'.data) = <<>> => db'[result'.key] = db[result'.key]
          /\ Prefixes(db'[result'.key]) \subseteq {"process"}]_vars

\* an ingestion has handled a foreign key that ends in a static-attribute
\* suffix and contains 'gpu'
C9_Witness ==
    /\ result.op = "track"
    /\ \E i \in DOMAIN result.data :
         LET ind_split == split(result.data[i][1])
         IN /\ ind_split[1] # "process"
            /\ Last(ind_split) = "name"
            /\ ContainsGpu(result.data[i][1])

\* C10: idempotent session creation. get_or_create creates records only for a
\* session with no registry entry; for a session that has one it returns the
\* aggregator of the registered record, with the state saved since, and leaves
\* the registries and the stored records as they are.
C10_IdempotentCreate ==
    [][\A r \in Reqs :
          (ans'[r].key # NoKey /\ (ans'[r] # ans[r] \/ created' # created)) =>
             LET s == ans'[r].session
             IN /\ ans'[r].key = index'[s]
                /\ ans'[r].process = db'[index'[s]]
                /\ index[s] # NoKey =>
                     /\ ans'[r].key = index[s]
                     /\ ans'[r].process = db[index[s]]
                     /\ UNCHANGED <<index, prefIndex, db, prefDb, created>>]_vars

\* get_or_create has returned, a second time, the one record of a session, with
\* what an ingestion saved to it after the first call
C10_Witness ==
    /\ created = 1
    /\ ntracks > 0
    /\ ans[1].key = 1
    /\ index[ans[1].session] = 1
    /\ ans[1].process = db[1]
    /\ db[1] # defaults

----------------------------------------------------------------------------
\* Two requests for one session, not serialized: each loads the record, works
\* on its own copy and saves it; get_or_create's two creations are two steps

RaceReqs == {1, 2}

\* request r runs get_or_create up to ProcessIndex.set: no key is registered,
\* so it saves a new ProcessModel and registers it
CreateProcess(r, s) ==
    /\ ~HasKey(index, s)
    /\ created < MaxCreates
    /\ created' = created + 1
    /\ db' = Put(db, created', defaults)
    /\ index' = [index EXCEPT ![s] = created']
    /\ ans' = [ans EXCEPT ![r] =
                 [key |-> NoKey, session |-> s, process |-> defaults, made |-> created']]
    /\ UNCHANGED <<prefIndex, prefDb, ntracks, result>>

\* request r runs the rest of get_or_create: it saves and registers the
\* preferences and returns the ProcessAnalysis of the record it made
CreatePreferences(r) ==
    /\ "made" \in DOMAIN ans[r]
    /\ prefDb' = Put(prefDb, ans[r].made, [preferences |-> EmptyMap])
    /\ prefIndex' = [prefIndex EXCEPT ![ans[r].session] = ans[r].made]
    /\ ans' = [ans EXCEPT ![r] =
                 [key |-> ans[r].made, session |-> ans[r].session, process |-> defaults]]
    /\ UNCHANGED <<index, db, created, ntracks, result>>

RaceStrBatches == {<<Item(<<"process", "p1", "name">>, "a")>>}

RaceNumBatches ==
    {<<Item(<<"process", "p1", "cpu">>, 0), Item(<<"process", "p1", "rss">>, 7000)>>}

InitRace ==
    /\ index = [s \in Sessions |-> NoKey]
    /\ prefIndex = [s \in Sessions |-> NoKey]
    /\ db = EmptyMap
    /\ prefDb = EmptyMap
    /\ created = 0
    /\ ans = [r \in RaceReqs |-> Unbound]
    /\ ntracks = 0
    /\ result = [op |-> "none"]

NextRace ==
    \/ \E r \in RaceReqs, s \in Sessions :
         ans[r] = Unbound /\ HasKey(index, s) /\ GetOrCreate(r, s)
    \/ \E r \in RaceReqs, s \in Sessions : ans[r] = Unbound /\ CreateProcess(r, s)
    \/ \E r \in RaceReqs : CreatePreferences(r)
    \/ \E r \in RaceReqs, data \in RaceStrBatches : Track(r, data)
    \/ \E r \in RaceReqs, data \in RaceNumBatches : Track(r, data)
    \/ \E r \in RaceReqs : GetTracking(r)
    \/ \E s \in Sessions : Delete(s)

SpecRace == InitRace /\ [][NextRace]_vars

\* C11: deletion is safe to repeat. A delete of a session leaves neither
\* registry with an entry for it; the registry and the records of a part that
\* was already absent are left as they were, and the record a registered key
\* names is there to be loaded.
C11_DeleteRepeatable ==
    [][/\ \A s \in DOMAIN index : index[s] # NoKey => index[s] \in DOMAIN db
       /\ \A s \in DOMAIN prefIndex : prefIndex[s] # NoKey => prefIndex[s] \in DOMAIN prefDb
       /\ (result'.op = "delete" /\ ans' = ans) =>
            LET s == result'.session
            IN /\ index'[s] = NoKey
               /\ prefIndex'[s] = NoKey
               /\ index[s] = NoKey => (index' = index /\ db' = db)
               /\ prefIndex[s] = NoKey => (prefIndex' = prefIndex /\ prefDb' = prefDb)
               /\ index[s] # NoKey => index[s] \notin DOMAIN db'
               /\ prefIndex[s] # NoKey => prefIndex[s] \notin DOMAIN prefDb'
               /\ created' = created]_vars

\* a delete has run on a session whose aggregation state was registered and
\* whose preferences had not been created yet
C11_Witness ==
    /\ result.op = "delete"
    /\ created = 1
    /\ \E r \in DOMAIN ans :
         /\ "made" \in DOMAIN ans[r]
         /\ ans[r].session = result.session
         /\ ans[r].made \notin DOMAIN db

----------------------------------------------------------------------------
\* the static-attribute suffixes track consumes
StaticSuffixes == {"name", "exe", "cmdline", "create_time", "pid", "ppids", "dead"}

\* the keys of a batch that are samples of a GPU sub-process: of this analysis
\* type, not a static attribute, with 'gpu' among the segments before the last
GpuKeys(data) ==
    {data[i][1] : i \in {j \in DOMAIN data :
       LET segs == split(data[j][1])
       IN /\ segs[1] = PROCESS
          /\ Last(segs) \notin StaticSuffixes
          /\ \E n \in 1..(Len(segs) - 1) : segs[n] \in GpuChunks}}

\* C12: GPU aggregation is idempotent. An ingestion of a GPU sub-process key
\* leaves the GPU set of the process of segments one and two equal to the set
\* before plus the id of segments three and four, and when that id was already
\* registered the whole GPU-set map is left as it was.
C12_GpuIdempotent ==
    [][Returned("track") =>
         \A ind \in GpuKeys(result'.data) :
            LET segs == split(ind)
                pid == <<segs[1], Dot, segs[2]>>
                gpu_process == <<segs[3], Dot, segs[4]>>
                before == ans[1].process.gpu_processes
                after == db'[result'.key].gpu_processes
            IN /\ pid \in DOMAIN after
               /\ gpu_process \in after[pid]
               /\ Cardinality(GpuKeys(result'.data)) = 1 =>
                    after[pid] = Get(before, pid, {}) \cup {gpu_process}
               /\ (pid \in DOMAIN before /\ gpu_process \in before[pid]) =>
                    after = before]_vars

\* the same GPU sub-process key has been ingested a second time
C12_Witness ==
    /\ result.op = "track"
    /\ GpuKeys(result.data) # {}
    /\ result.key \in DOMAIN db
    /\ \E ind \in GpuKeys(result.data) :
         /\ ODHas(db[result.key].tracking, ind)
         /\ Len(ODGet(db[result.key].tracking, ind)) = 2
         /\ db[result.key].gpu_processes[P1] = {<<split(ind)[3], Dot, split(ind)[4]>>}

----------------------------------------------------------------------------
\* the keys of an insertion-ordered dict
Keys(d) == {d[i][1] : i \in DOMAIN d}

\* C13: the zero-activity cache is rebuilt in full by each live-table query.
\* Right after get_tracking the stored cache has one entry for each process id
\* that is not marked dead and whose cpu series has a mean below 1.0E-2, and
\* for no other id; each entry carries the detail of the stored cpu series.
C13_CacheRebuilt ==
    result.op = "get_tracking" =>
        /\ result.key \in DOMAIN db
        /\ LET process == db[result.key]
               zero == process.zero_cpu_processes
           IN /\ Keys(zero) = IdleIds(process) \ DeadIds(process)
              /\ Len(zero) = Cardinality(Keys(zero))
              /\ \A i \in DOMAIN zero :
                   /\ zero[i][2].process_id = zero[i][1]
                   /\ "cpu" \in DOMAIN zero[i][2]
                   /\ zero[i][2].cpu.value =
                        ODGet(process.tracking, MetricKey(zero[i][1], "cpu"))

\* a live-table query has dropped an entry that an earlier query had cached
C13_Witness ==
    /\ result.op = "get_tracking"
    /\ result.key \in DOMAIN db
    /\ \E id \in Keys(result.replaced) : id \notin Keys(db[result.key].zero_cpu_processes)

----------------------------------------------------------------------------
\* the records of the cache that have both a cpu and an rss detail
ZeroRecords(process) ==
    {process.zero_cpu_processes[i][2] :
       i \in {j \in DOMAIN process.zero_cpu_processes :
                {"cpu", "rss"} \subseteq DOMAIN process.zero_cpu_processes[j][2]}}

\* C14: the zero-activity query reflects the last live-table query. A record
\* starts with an empty cache, only a get_tracking changes the cache of a
\* stored record, an ingestion leaves it as it was, and get_zero_cpu_processes
\* returns the records of the cache that have cpu and rss, each once, and
\* nothing computed from the series.
C14_ZeroReflectsLastQuery ==
    [][/\ \A k \in DOMAIN db' \ DOMAIN db : db'[k].zero_cpu_processes = <<>>
       /\ \A k \in DOMAIN db' \cap DOMAIN db :
            db'[k].zero_cpu_processes # db[k].zero_cpu_processes =>
               Returned("get_tracking") /\ result'.key = k
       /\ Returned("track") =>
            db'[result'.key].zero_cpu_processes = ans[1].process.zero_cpu_processes
       /\ Returned("get_zero_cpu_processes") =>
            /\ {result'.ret[i] : i \in DOMAIN result'.ret} = ZeroRecords(ans[1].process)
            /\ Len(result'.ret) = Cardinality(ZeroRecords(ans[1].process))
            /\ ans[1].process = db[ans[1].key]
            /\ db' = db]_vars

\* the zero-activity query has returned a process that the series ingested
\* since the last live-table query no longer show as idle
C14_Witness ==
    /\ result.op = "get_zero_cpu_processes"
    /\ result.key \in DOMAIN db
    /\ \E i \in DOMAIN result.ret :
         result.ret[i].process_id \notin IdleIds(db[result.key])

----------------------------------------------------------------------------
\* C15: static-attribute samples are consumed. No stored record has a series
\* under a key of this analysis type whose last segment is a static-attribute
\* suffix, and an ingestion appends the sample of every other key of this
\* analysis type in the batch to the series of that key.
C15_StaticConsumed ==
    [][/\ \A k \in DOMAIN db' : \A i \in DOMAIN db'[k].tracking :
            LET segs == split(db'[k].tracking[i][1])
            IN ~(segs[1] = PROCESS /\ Last(segs) \in StaticSuffixes)
       /\ Returned("track") =>
            \A i \in DOMAIN result'.data :
               LET ind == result'.data[i][1]
                   segs == split(ind)
                   before == ans[1].process.tracking
                   after == db'[result'.key].tracking
               IN (segs[1] = PROCESS /\ Last(segs) \notin StaticSuffixes) =>
                    /\ ODHas(after, ind)
                    /\ ODGet(after, ind) =
                         (IF ODHas(before, ind) THEN ODGet(before, ind) ELSE <<>>)
                           \o result'.data[i][2].value]_vars

\* a name sample was offered for a process that already had another name: the
\* attribute write was skipped and the sample is in no series
C15_Witness ==
    /\ result.op = "track"
    /\ result.key \in DOMAIN db
    /\ \E i \in DOMAIN result.data :
         LET segs == split(result.data[i][1])
         IN /\ segs[1] = PROCESS
            /\ Last(segs) = "name"
            /\ db[result.key].names[join(AllButLast(segs))] # result.data[i][2].value[1]
            /\ ~ODHas(db[result.key].tracking, result.data[i][1])

----------------------------------------------------------------------------
\* the place of key ind in an insertion-ordered dict
Place(d, ind) == CHOOSE i \in DOMAIN d : d[i][1] = ind

\* C18: the live ranked list is exact. The process ids of the list returned
\* by get_tracking are those that are not marked dead, have a cpu and an rss
\* series, and whose cpu mean is not below 1.0E-2; each is there once,
\* whichever of its series was stored first.
C18_LiveListExact ==
    result.op = "get_tracking" =>
        /\ result.key \in DOMAIN db
        /\ LET process == db[result.key]
           IN /\ Ids(result.ret) =
                    ((WithSeries(process, "cpu") \cap WithSeries(process, "rss"))
                       \ DeadIds(process)) \ IdleIds(process)
              /\ Len(result.ret) = Cardinality(Ids(result.ret))

\* the list holds a process whose rss series comes before its cpu series in
\* the store
C18_Witness ==
    /\ result.op = "get_tracking"
    /\ result.key \in DOMAIN db
    /\ LET process == db[result.key]
       IN \E id \in Ids(result.ret) :
            Place(process.tracking, MetricKey(id, "rss"))
              < Place(process.tracking, MetricKey(id, "cpu"))

\* the fields of ProcessModel other than the cache
FrameFields ==
    {"names", "exes", "cmdlines", "create_times", "pids", "ppids", "dead",
     "gpu_processes", "tracking"}

\* C20: query frame. A get_tracking changes nothing but the
\* zero_cpu_processes field of the record of its session; a
\* get_zero_cpu_processes or a get_process changes no record and no registry.
C20_QueryFrame ==
    [][/\ Returned("get_tracking") =>
            /\ DOMAIN db' = DOMAIN db
            /\ \A k \in DOMAIN db : k # result'.key => db'[k] = db[k]
            /\ \A f \in FrameFields : db'[result'.key][f] = db[result'.key][f]
            /\ UNCHANGED <<index, prefIndex, prefDb>>
       /\ (Returned("get_zero_cpu_processes") \/ Returned("get_process")) =>
            UNCHANGED <<index, prefIndex, db, prefDb>>]_vars

\* a live-table query has replaced the cache of a record that holds series
C20_Witness ==
    /\ result.op = "get_tracking"
    /\ result.key \in DOMAIN db
    /\ result.replaced # db[result.key].zero_cpu_processes
    /\ db[result.key].tracking # <<>>

----------------------------------------------------------------------------
\* A session that has ingested the attributes, some of the six metrics and some
\* GPU sub-process samples of process p1, asked for the detail of a process

NGpu == 2

\* the numbers of the GPU sub-processes gpu.0, gpu.1, ...
GpuNums == <<"0", "1", "2">>

\* the samples of the string attributes: none, the name, or all of them
StrAttrItems(attrs) ==
    IF attrs = "name" THEN <<Item(<<"process", "p1", "name">>, "a")>>
    ELSE <<Item(<<"process", "p1", "name">>, "a"), Item(<<"process", "p1", "exe">>, "b"),
           Item(<<"process", "p1", "cmdline">>, "b")>>

\* the samples of the numeric attributes
NumAttrItems(attrs) ==
    IF attrs = "all"
    THEN <<Item(<<"process", "p1", "create_time">>, 2), Item(<<"process", "p1", "pid">>, 2),
           Item(<<"process", "p1", "ppids">>, 1), Item(<<"process", "p1", "dead">>, 1)>>
    ELSE <<>>

\* one sample of each metric of M, in the order of SERIES_NAMES
MetricItems(M) ==
    LET Chosen(m) == m \in M
        names == SelectSeq(SERIES_NAMES, Chosen)
    IN [i \in 1..Len(names) |-> Item(<<"process", "p1", names[i]>>, 1000)]

\* one sample of GPU sub-process i under the suffix gsel[i], unless it is "none"
GpuItems(gsel) ==
    LET Chosen(i) == gsel[i] # "none"
        picked == SelectSeq([i \in 1..Min(NGpu, Len(GpuNums)) |-> i], Chosen)
    IN [j \in 1..Len(picked) |->
          Item(<<"process", "p1", "gpu", GpuNums[picked[j]], gsel[picked[j]]>>, 500)]

InitDetail ==
    \E M \in SUBSET {SERIES_NAMES[i] : i \in DOMAIN SERIES_NAMES},
       gsel \in [1..Min(NGpu, Len(GpuNums)) -> {"none", "mem", "util"}],
       attrs \in {"none", "name", "all"} :
       LET named == IF attrs = "none" THEN defaults ELSE track(defaults, StrAttrItems(attrs))
           process == track(named, NumAttrItems(attrs) \o MetricItems(M) \o GpuItems(gsel))
       IN /\ index = [s \in Sessions |-> 1]
          /\ prefIndex = [s \in Sessions |-> 1]
          /\ db = Put(EmptyMap, 1, process)
          /\ prefDb = Put(EmptyMap, 1, [preferences |-> EmptyMap])
          /\ created = 1
          /\ ans = [r \in Reqs |-> Unbound]
          /\ ntracks = 2
          /\ result = [op |-> "none"]

NextDetail ==
    \/ \E s \in Sessions : GetOrCreate(1, s)
    \/ \E process_id \in DetailIds : GetProcess(1, process_id)

SpecDetail == InitDetail /\ [][NextDetail]_vars

\* C16: the series list of the process detail. For a process with a recorded
\* name, the names of the entries of the returned series list are the
\* canonical metrics that have a stored series under <id>.<metric> and
\* '<gpu_process>.mem' for each registered GPU sub-process with a stored series
\* under <id>.<gpu_process>.mem; each name is there once, with the samples of
\* the stored series; an attribute that was never recorded is returned as ''
\* or 0.
C16_DetailSeries ==
    (result.op = "get_process" /\ result.exc = "none") =>
        LET process == db[result.key]
            p == result.process_id
            v == result.value
            names == {v.series[i].name : i \in DOMAIN v.series}
        IN /\ names =
                {<<m>> : m \in {n \in {"rss", "vms", "cpu", "threads", "user", "system"} :
                                  ODHas(process.tracking, p \o <<Dot, n>>)}}
                \cup {g \o <<Dot, "mem">> :
                        g \in {h \in Get(process.gpu_processes, p, {}) :
                                 ODHas(process.tracking, p \o <<Dot>> \o h \o <<Dot, "mem">>)}}
           /\ Len(v.series) = Cardinality(names)
           /\ \A i \in DOMAIN v.series :
                v.series[i].value = ODGet(process.tracking, p \o <<Dot>> \o v.series[i].name)
           /\ v.name = process.names[p]
           /\ v.exe = (IF p \in DOMAIN process.exes THEN process.exes[p] ELSE "")
           /\ v.cmdline = (IF p \in DOMAIN process.cmdlines THEN process.cmdlines[p] ELSE "")
           /\ v.create_time =
                (IF p \in DOMAIN process.create_times THEN process.create_times[p] ELSE 0)
           /\ v.pid = (IF p \in DOMAIN process.pids THEN process.pids[p] ELSE 0)
           /\ v.ppid = (IF p \in DOMAIN process.ppids THEN process.ppids[p] ELSE 0)
           /\ v.dead = (IF p \in DOMAIN process.dead THEN process.dead[p] ELSE 0)

\* the detail of a named process without other attributes: some metric has no
\* series, a GPU sub-process is listed and another registered one has no mem
\* series
C16_Witness ==
    /\ result.op = "get_process"
    /\ result.exc = "none"
    /\ result.value.exe = ""
    /\ result.value.pid = 0
    /\ \E i \in DOMAIN result.value.series : Len(result.value.series[i].name) > 1
    /\ \E m \in {"rss", "vms", "cpu"} :
         \A i \in DOMAIN result.value.series : result.value.series[i].name # <<m>>
    /\ \E g \in db[result.key].gpu_processes[result.process_id] :
         \A i \in DOMAIN result.value.series :
            result.value.series[i].name # g \o <<Dot, "mem">>

----------------------------------------------------------------------------
\* request r returns from a method that answered op
ReturnedBy(r, op) == ans[r].key # NoKey /\ ans'[r].key = NoKey /\ result'.op = op

\* C17: a same-session race loses an update. Requests of one session are not
\* serialized and each save stores the whole copy the request loaded: after a
\* get_tracking the stored attributes, GPU sets and series are those of the
\* copy of the request, not those stored meanwhile; after a track the stored
\* cache is that of the copy and each stored series of the batch is the series
\* of the copy plus the sample. So a save overwrites what another request
\* saved since the copy was loaded.
C17_WholeRecordSave ==
    [][\A r \in RaceReqs :
         /\ ReturnedBy(r, "get_tracking") =>
              \A f \in FrameFields : db'[result'.key][f] = ans[r].process[f]
         /\ ReturnedBy(r, "track") =>
              /\ db'[result'.key].zero_cpu_processes = ans[r].process.zero_cpu_processes
              /\ \A i \in DOMAIN result'.data :
                   LET ind == result'.data[i][1]
                       mine == ans[r].process.tracking
                   IN Last(split(ind)) \notin StaticSuffixes =>
                        /\ ODHas(db'[result'.key].tracking, ind)
                        /\ ODGet(db'[result'.key].tracking, ind) =
                             (IF ODHas(mine, ind) THEN ODGet(mine, ind) ELSE <<>>)
                               \o result'.data[i][2].value]_vars

\* the session was created once and never deleted, an ingestion has been saved,
\* and after the save of a live-table query the stored record holds no
\* attribute and no series: the ingestion is lost
C17_Witness ==
    /\ result.op = "get_tracking"
    /\ created = 1
    /\ \E s \in Sessions : index[s] = 1
    /\ 1 \in DOMAIN db
    /\ ntracks >= 1
    /\ db[1].names = EmptyMap
    /\ db[1].tracking = <<>>

----------------------------------------------------------------------------
\* Two sessions whose operations run one after the other, each to completion

LifeSessions == {"s1", "s2"}

InitLife ==
    /\ index = [s \in LifeSessions |-> NoKey]
    /\ prefIndex = [s \in LifeSessions |-> NoKey]
    /\ db = EmptyMap
    /\ prefDb = EmptyMap
    /\ created = 0
    /\ ans = [r \in Reqs |-> Unbound]
    /\ ntracks = 0
    /\ result = [op |-> "none"]

NextLife ==
    \/ \E s \in LifeSessions : GetOrCreate(1, s)
    \/ \E s \in LifeSessions : Delete(s)
    \/ \E data \in RaceStrBatches : Track(1, data)
    \/ \E data \in RaceNumBatches : Track(1, data)
    \/ GetTracking(1)

SpecLife == InitLife /\ [][NextLife]_vars

\* C19: paired session records. Between completed operations the aggregation
\* registry has an entry for a session exactly when the preferences registry
\* has one, and each entry names a stored record.
C19_PairedRecords ==
    \A s \in DOMAIN index :
       /\ index[s] # NoKey <=> prefIndex[s] # NoKey
       /\ index[s] # NoKey => index[s] \in DOMAIN db
       /\ prefIndex[s] # NoKey => prefIndex[s] \in DOMAIN prefDb

\* two creations have completed and a delete since: one session has both
\* entries and another has neither
C19_Witness ==
    /\ created = 2
    /\ result.op = "delete"
    /\ \E s \in DOMAIN index : index[s] # NoKey /\ prefIndex[s] # NoKey
    /\ \E s \in DOMAIN index : index[s] = NoKey /\ prefIndex[s] = NoKey

====
